---- MODULE Spec2Model ----
(***************************************************************************)
(* Achievement verification workflow of src/index.ts: the request handlers *)
(* for creating, editing, deleting, verifying and listing achievements,    *)
(* the coach report, registration and the profile update, over the         *)
(* Prisma-backed tables.                                                   *)
(*                                                                         *)
(* A handler runs from one await to the next in one step: the query it was *)
(* awaiting is applied to the tables as they are then, the handler checks  *)
(* what came back, and it either answers or issues its next query.  The    *)
(* steps of different requests interleave freely.  A request between two   *)
(* of its steps waits in `inflight` with the locals it holds.  The last    *)
(* response sent is kept in `resp`.  Time is a clock that ticks on its own *)
(* between steps: two steps may read the same time.                        *)
(*                                                                         *)
(* Spec            the achievement workflow of a player and a coach        *)
(* SpecReads       the workflow with the owner's list and the coach report *)
(* SpecAttendance  the coach report over tables of schedule requests       *)
(* SpecRace        deletes and verifications                               *)
(* SpecOverlap     edits, deletes and verifications by two coaches         *)
(* SpecVerdicts    verifications by two coaches                            *)
(* SpecProfile     registration and profile edits among the workflow       *)
(* SpecScope       the coach report among creates, approvals and profile   *)
(*                 edits                                                   *)
(***************************************************************************)
EXTENDS Integers, Sequences, FiniteSets, Bags, TLC

\* ---------------------------------------------------------------- bounds
\* Number of achievement ids the store hands out.
MaxAch == 2
\* The last value of the clock.
MaxClock == 2
\* Number of schedule requests of the coach's last 30 days.
MaxRequests == 40
\* Number of requests that can be between two of their steps at once.
MaxInFlight == 2
\* Number of requests the server accepts in a run.
MaxAccepted == 3

\* ------------------------------------------------------- values and inputs
\* A key that is missing from req.body (JavaScript undefined).
Absent == "UNDEFINED"
\* JavaScript null / SQL NULL in a string column.
Null == "NULL"
\* SQL NULL in a DateTime column.
NullTime == 0
\* What `new Date(x)` gives for an unparseable x (Invalid Date).
InvalidDate == -1

UserIds == {"u1", "u2"}
AchIds == 1..MaxAch
Sports == {"cricket", "football"}
\* The values the status column holds.
StatusValues == {"PENDING", "APPROVED", "REJECTED"}
\* The `decision` values a verify request may carry (unvalidated by the handler).
Decisions == {"APPROVED", "REJECTED", "PENDING", "MAYBE", Absent}
\* The `reason` values a verify request may carry.
Reasons == {"Blurry proof", Absent}
\* Bodies of PATCH /api/achievements/:id/verify: a rejection with and without
\* a reason, an approval with and without one, and the other decisions bare.
VerifyBodies ==
  {v \in [decision : Decisions, reason : Reasons] :
     v.reason = Absent \/ v.decision \in {"APPROVED", "REJECTED"}}

\* The username given at registration (never changed afterwards).
Username(u) == IF u = "u1" THEN "asha" ELSE "ravi"

\* JavaScript `!x` for the string-or-missing values of a request body.
Falsy(x) == x = Absent \/ x = Null \/ x = ""

\* `new Date(s)` for the date strings the requests carry: days since the epoch,
\* or InvalidDate.
ParseDate(s) ==
  CASE s = "2024-01-10" -> 19732
    [] s = "2024-03-05" -> 19787
    [] OTHER -> InvalidDate

\* Prisma writes a field only when its value is not undefined.
Patch(old, new) == IF new = Absent THEN old ELSE new

\* Bodies of POST /api/achievements.
ScenarioA ==
  [title |-> "State Champion", date |-> "2024-01-10", sport |-> "cricket",
   venue |-> "Delhi", description |-> Absent, proof |-> Absent]
CreateBodies ==
  {ScenarioA,
   [ScenarioA EXCEPT !.sport = "football", !.description = "Final", !.proof = "cert.pdf"],
   [ScenarioA EXCEPT !.title = Absent],
   [ScenarioA EXCEPT !.date = Absent],
   [ScenarioA EXCEPT !.sport = Absent],
   [ScenarioA EXCEPT !.venue = Absent],
   [ScenarioA EXCEPT !.title = ""],
   [ScenarioA EXCEPT !.date = "soon"]}

\* Bodies of PUT /api/achievements/:id.
UpdateBodies ==
  {[title |-> "Edited", sport |-> Absent, date |-> "2024-01-10",
    venue |-> Absent, description |-> Absent],
   [title |-> Absent, sport |-> "football", date |-> "2024-03-05",
    venue |-> "Mumbai", description |-> "Moved"],
   [title |-> "Edited", sport |-> "cricket", date |-> Absent,
    venue |-> Absent, description |-> Absent]}

\* The tables: users and achievements, and the three the coach report reads
\* (tournament registrations, coaching schedules, schedule requests), which no
\* handler of this server writes.  `nextId` is the id the store gives the next
\* achievement, `now` the time, `resp` the last response sent.
\* `inflight` is the bag of the requests that are awaiting a query, each with
\* the locals its handler holds; `accepted` counts the requests taken so far.
VARIABLES users, achievements, nextId, now, resp,
          registrations, schedules, scheduleRequests, inflight, accepted
vars == <<users, achievements, nextId, now, resp,
          registrations, schedules, scheduleRequests, inflight, accepted>>
\* The tables read by the coach report only.
reportTables == <<registrations, schedules, scheduleRequests>>

\* An HTTP response: status code, the `error` string of a failure, and the
\* records of a success body (none, one, or a list).
Response(code, error, body) == [code |-> code, error |-> error, body |-> body]
NoBody == << >>
\* No response sent (yet).
NoResponse == Response(0, "", NoBody)

\* ------------------------------------------------------------------ store
\* prisma.achievement.findUnique
Exists(id) == id \in DOMAIN achievements

\* prisma.user.findUnique({ where: { id } }): the row, or nothing (null).
FoundUser(u) == IF u \in DOMAIN users THEN <<users[u]>> ELSE << >>

\* Mutant: the coach test without `!coach.sport`.
IsCoachWithSport_NoSportTest(coach) ==
  /\ coach # << >>
  /\ coach[1].role = "Coach"

\* Mutant: the coach test without the role.
IsCoachWithSport_AnyRole(coach) ==
  /\ coach # << >>
  /\ ~Falsy(coach[1].sport)

\* The handlers' test `!coach || coach.role !== "Coach" || !coach.sport`,
\* negated, on the row that user.findUnique returned.
IsCoachWithSport(coach) ==
  /\ coach # << >>
  /\ coach[1].role = "Coach"
  /\ ~Falsy(coach[1].sport)

\* Mutant: the verify handler without its sport test.
SameSport_Always(coach, id) == TRUE

\* The verify handler's test `achievement.sport !== coach.sport`, negated, on
\* the coach row read before and the achievement row read now.
SameSport(coach, id) == achievements[id].sport = coach[1].sport

\* Mutant: the ownership test of Update and Delete reduced to existence.
NotFoundOrNotOwner_ExistsOnly(u, id) == ~Exists(id)

\* The owner test of PUT and DELETE: `!achievement || achievement.ownerId !== userId`.
NotFoundOrNotOwner(u, id) == ~Exists(id) \/ achievements[id].ownerId # u

\* Mutant: the delete handler without its APPROVED test.
DeleteBlocked_Never(id) == FALSE

\* The delete handler's test `achievement.status === "APPROVED"`.
DeleteBlocked(id) == achievements[id].status = "APPROVED"

\* The create handler's test `!title || !date || !sport || !venue`.
MissingRequired(b) == Falsy(b.title) \/ Falsy(b.date) \/ Falsy(b.sport) \/ Falsy(b.venue)

\* prisma.achievement.create of POST /api/achievements; createdAt and
\* updatedAt are the time of the insert.
NewAchievement(u, b, t) ==
  [ownerId |-> u,
   title |-> b.title,
   date |-> ParseDate(b.date),
   description |-> Patch(Null, b.description),
   proof |-> Patch(Null, b.proof),
   sport |-> b.sport,
   venue |-> b.venue,
   status |-> "PENDING",
   decisionReason |-> Null,
   verifiedById |-> Null,
   verifiedByName |-> Null,
   verifiedAt |-> NullTime,
   createdAt |-> t,
   updatedAt |-> t]

\* Mutant: an owner edit that resubmits the record (status back to PENDING).
UpdatedRecord_Resubmits(a, b, t) ==
  [a EXCEPT !.title = Patch(@, b.title),
            !.sport = Patch(@, b.sport),
            !.date = ParseDate(b.date),
            !.venue = Patch(@, b.venue),
            !.description = Patch(@, b.description),
            !.status = "PENDING",
            !.updatedAt = t]

\* prisma.achievement.update of PUT /api/achievements/:id, on the row a as it
\* is when the update is applied; t is the `updatedAt: new Date()` of the data.
UpdatedRecord(a, b, t) ==
  [a EXCEPT !.title = Patch(@, b.title),
            !.sport = Patch(@, b.sport),
            !.date = ParseDate(b.date),
            !.venue = Patch(@, b.venue),
            !.description = Patch(@, b.description),
            !.updatedAt = t]

\* Mutant: a verification that does not record the coach's name.
VerifiedRecord_NoName(a, r) ==
  [a EXCEPT !.status = Patch(@, r.decision),
            !.decisionReason = IF r.decision = "REJECTED" THEN Patch(@, r.reason) ELSE Null,
            !.verifiedById = r.u,
            !.verifiedAt = r.stamp]

\* Mutant: a verification that hands the record to the coach.
VerifiedRecord_TakesOwnership(a, r) ==
  [a EXCEPT !.status = Patch(@, r.decision),
            !.decisionReason = IF r.decision = "REJECTED" THEN Patch(@, r.reason) ELSE Null,
            !.ownerId = r.u,
            !.verifiedById = r.u,
            !.verifiedByName = r.coach[1].username,
            !.verifiedAt = r.stamp]

\* prisma.achievement.update of PATCH /api/achievements/:id/verify, on the
\* row a as it is when the update is applied, with the data the handler built
\* from its locals r: the decision and reason of the body, the coach row it
\* read (coach.id is the caller r.u), and its `verifiedAt: new Date()`.
VerifiedRecord(a, r) ==
  [a EXCEPT !.status = Patch(@, r.decision),
            !.decisionReason = IF r.decision = "REJECTED" THEN Patch(@, r.reason) ELSE Null,
            !.verifiedById = r.u,
            !.verifiedByName = r.coach[1].username,
            !.verifiedAt = r.stamp]

\* The status column takes the three status values; a write of anything else
\* is refused by the store.
StoreAcceptsStatus(decision) == decision \in StatusValues \cup {Absent}

\* orderBy: { createdAt: "desc" }: the orders of the rows `ids` in which no
\* row comes before one created later.  Rows created at the same time come in
\* either order.
RECURSIVE NewestFirst(_)
NewestFirst(ids) ==
  IF ids = {} THEN {<< >>}
  ELSE UNION {{<<m>> \o rest : rest \in NewestFirst(ids \ {m})} :
                m \in {i \in ids :
                         \A j \in ids : achievements[j].createdAt <= achievements[i].createdAt}}

\* Mutant: the pending query without its sport filter.
PendingWhere_AnySport(sport) ==
  {id \in DOMAIN achievements : achievements[id].status = "PENDING"}

\* where: { status: "PENDING", sport: coach.sport }
PendingWhere(sport) ==
  {id \in DOMAIN achievements :
     /\ achievements[id].status = "PENDING"
     /\ achievements[id].sport = sport}

\* findMany of GET /api/achievements/pending, with the owner's username
\* joined: the lists it can return.
PendingAchievements(sport) ==
  {[k \in 1..Len(order) |->
      [id |-> order[k],
       record |-> achievements[order[k]],
       owner |-> users[achievements[order[k]].ownerId].username]] :
     order \in NewestFirst(PendingWhere(sport))}

\* Mutant: the owner's list without its owner filter.
MineWhere_Everyone(u) == DOMAIN achievements

\* where: { ownerId: userId }
MineWhere(u) == {id \in DOMAIN achievements : achievements[id].ownerId = u}

\* findMany of GET /api/achievements/my: the lists it can return.
MyAchievements(u) ==
  {[k \in 1..Len(order) |-> [id |-> order[k], record |-> achievements[order[k]]]] :
     order \in NewestFirst(MineWhere(u))}

\* prisma.achievement.delete({ where: { id } })
DeletedStore(id) == [i \in DOMAIN achievements \ {id} |-> achievements[i]]

\* ----------------------------------------------------------- coach report
\* The report's windows, in clock units: setDate(getDate() - 30), - 7 and + 7.
ThirtyDays == 30
SevenDays == 7

\* JavaScript numbers are IEEE 754 binary64: 53 significant bits.  A number is
\* kept as its significant bits, most significant first, and a binary exponent:
\* the bits read as an integer, times 2^exp.  Zero has no bits.
Precision == 53
Double(bits, exp) == [bits |-> bits, exp |-> exp]

\* A non-negative integer as bits, without leading zeros.
RECURSIVE ToBits(_)
ToBits(n) == IF n = 0 THEN << >> ELSE ToBits(n \div 2) \o <<n % 2>>

\* The integer a bit string reads as.
RECURSIVE FromBits(_)
FromBits(bits) ==
  IF bits = << >> THEN 0
  ELSE 2 * FromBits(SubSeq(bits, 1, Len(bits) - 1)) + bits[Len(bits)]

\* A bit string plus one (one bit longer when the carry runs out of it).
RECURSIVE Increment(_)
Increment(bits) ==
  IF bits = << >> THEN <<1>>
  ELSE IF bits[Len(bits)] = 0 THEN SubSeq(bits, 1, Len(bits) - 1) \o <<1>>
  ELSE Increment(SubSeq(bits, 1, Len(bits) - 1)) \o <<0>>

\* Rounding of an exact result to 53 bits, to nearest, ties to even.
RoundToNearestEven(bits, exp) ==
  IF Len(bits) <= Precision THEN Double(bits, exp)
  ELSE LET dropped == Len(bits) - Precision
           kept == SubSeq(bits, 1, Precision)
           half == bits[Precision + 1] = 1
           more == \E i \in (Precision + 2)..Len(bits) : bits[i] = 1
           m == IF half /\ (more \/ kept[Precision] = 1) THEN Increment(kept) ELSE kept
       IN IF Len(m) > Precision
          THEN Double(SubSeq(m, 1, Precision), exp + dropped + 1)
          ELSE Double(m, exp + dropped)

\* The first n bits of r / d by long division (d <= r < 2d at the start), and
\* one more bit that tells whether a remainder is left.
RECURSIVE LongDivision(_, _, _)
LongDivision(r, d, n) ==
  IF n = 0 THEN <<IF r > 0 THEN 1 ELSE 0>>
  ELSE IF r >= d THEN <<1>> \o LongDivision(2 * (r - d), d, n - 1)
  ELSE <<0>> \o LongDivision(2 * r, d, n - 1)

\* The number of doublings that bring a up to d (0 < a <= d).
RECURSIVE LeadingShift(_, _)
LeadingShift(a, d) == IF a >= d THEN 0 ELSE 1 + LeadingShift(2 * a, d)

\* 2^k
RECURSIVE PowerOfTwo(_)
PowerOfTwo(k) == IF k = 0 THEN 1 ELSE 2 * PowerOfTwo(k - 1)

\* The JavaScript quotient a / d of two list lengths, 0 <= a <= d, 0 < d.
DoubleDivide(a, d) ==
  IF a = 0 THEN Double(<< >>, 0)
  ELSE LET k == LeadingShift(a, d)
       IN RoundToNearestEven(LongDivision(a * PowerOfTwo(k), d, Precision + 1),
                             0 - k - Precision - 1)

\* The bits of (bits read as an integer) * c + carry, for a small integer c.
RECURSIVE TimesSmall(_, _, _)
TimesSmall(bits, c, carry) ==
  IF bits = << >> THEN ToBits(carry)
  ELSE LET v == bits[Len(bits)] * c + carry
       IN IF v % 2 = 0
          THEN TimesSmall(SubSeq(bits, 1, Len(bits) - 1), c, v \div 2) \o <<0>>
          ELSE TimesSmall(SubSeq(bits, 1, Len(bits) - 1), c, v \div 2) \o <<1>>

\* The JavaScript product x * c of a number and a small integer.
DoubleTimes(x, c) == RoundToNearestEven(TimesSmall(x.bits, c, 0), x.exp)

\* Math.round of a number x, 0 <= x < 2^53: the integer part, plus one when
\* the fraction is a half or more.
MathRound(x) ==
  LET whole == Len(x.bits) + x.exp
  IN IF whole < 0 THEN 0
     ELSE FromBits(SubSeq(x.bits, 1, whole))
          + (IF whole + 1 <= Len(x.bits) THEN x.bits[whole + 1] ELSE 0)

\* A number field that is null.
NoRate == -1

\* Mutant: achievements scoped by their own sport instead of their owner's.
OwnerWhere_RecordSport(sport) ==
  {id \in DOMAIN achievements :
     /\ achievements[id].sport = sport
     /\ users[achievements[id].ownerId].role = "Player"}

\* where: { owner: { sport: coach.sport, role: "Player" } }
OwnerWhere(sport) ==
  {id \in DOMAIN achievements :
     /\ users[achievements[id].ownerId].sport = sport
     /\ users[achievements[id].ownerId].role = "Player"}

\* achievementsCount.find((c) => c.status === s)?._count.status || 0
AchievementsCount(sport, s) ==
  Cardinality({id \in OwnerWhere(sport) : achievements[id].status = s})

\* where: { player: { sport: coach.sport, role: "Player" } }
PlayerWhere(sport) ==
  {r \in DOMAIN registrations :
     /\ users[registrations[r].playerId].sport = sport
     /\ users[registrations[r].playerId].role = "Player"}

\* registrationsCount.find((c) => c.regStatus === s)?._count.regStatus || 0
RegistrationsCount(sport, s) ==
  Cardinality({r \in PlayerWhere(sport) : registrations[r].regStatus = s})

\* prisma.schedule.count: the coach's sessions dated from `from` to `to`.
UpcomingSessions7d(u, from, to) ==
  Cardinality({s \in DOMAIN schedules :
                 /\ schedules[s].coachId = u
                 /\ schedules[s].date >= from
                 /\ schedules[s].date <= to})

\* The schedule requests under the coach's schedules created since the time
\* `since`.
RequestsSince(u, since) ==
  {r \in DOMAIN scheduleRequests :
     /\ schedules[scheduleRequests[r].scheduleId].coachId = u
     /\ scheduleRequests[r].createdAt >= since}

\* scheduleRequests30d, for thirtyDaysAgo computed at the time `today`.
ScheduleRequests30d(u, today) == RequestsSince(u, today - ThirtyDays)

\* activePlayerIds: distinct playerId of the requests since sevenDaysAgo.
ActivePlayerIds(u, today) ==
  {scheduleRequests[r].playerId : r \in RequestsSince(u, today - SevenDays)}

\* attendanceRatePct, from scheduleRequests30d.length and the length of its
\* APPROVED part.
AttendanceRatePct(total, approved) ==
  IF total > 0
  THEN MathRound(DoubleTimes(DoubleDivide(approved, total), 100))
  ELSE NoRate

\* kpis, from the results r of the first five queries and the list of the
\* sixth.
Kpis(r, activePlayerIds) ==
  [achievementsApproved |-> r.achievementsApproved,
   achievementsPending |-> r.achievementsPending,
   regPending |-> r.regPending,
   regConfirmed |-> r.regConfirmed,
   upcomingSessions7d |-> r.upcomingSessions7d,
   activePlayersThisWeek |-> Cardinality(activePlayerIds),
   attendanceRatePct |-> AttendanceRatePct(r.total30d, r.approved30d)]

\* ------------------------------------------------------------------- init
\* The user table the workflow runs against: two registered users whose role and
\* sport were set through PATCH /api/me.  asha plays cricket; ravi coaches
\* cricket, football or no sport yet; or both coach cricket.
UserRow(u, role, sport) == [role |-> role, sport |-> sport, username |-> Username(u)]
Directories ==
  {[u \in UserIds |-> IF u = "u1" THEN UserRow(u, "Player", "cricket")
                                  ELSE UserRow(u, "Coach", s2)] :
     s2 \in Sports \cup {Null}}
  \cup {[u \in UserIds |-> UserRow(u, "Coach", "cricket")]}

\* The server before its first request: no achievement yet and no request.
InitWorkflow ==
  /\ users \in Directories
  /\ achievements = << >>
  /\ nextId = 1
  /\ now = 1
  /\ resp = NoResponse
  /\ inflight = EmptyBag
  /\ accepted = 0

\* A table without rows.
NoRows == << >>

\* ------------------------------------------------------------------ steps
\* What one step of a handler does in the current state: the response it
\* sends (NoResponse when it answers later), the achievement and user tables
\* it leaves, and the request it leaves awaiting its next query (none once it
\* has answered).
Outcome(r, store) == [resp |-> r, store |-> store, users |-> users, awaits |-> {}]
\* An early `return res.status(code).json({ error })`, or the catch block's 500.
Refused(code, error) == Outcome(Response(code, error, NoBody), achievements)
\* The handler issues its next query and awaits it, holding the locals q.
Awaiting(q) ==
  [resp |-> NoResponse, store |-> achievements, users |-> users, awaits |-> {q}]
\* The record a handler returns in its body.
Returned(id, a) == <<[id |-> id, record |-> a]>>

\* POST /api/achievements: the checks and prisma.achievement.create.
CreateOutcome(u, b) ==
  IF MissingRequired(b)
  THEN Refused(400, "Missing required fields")
  ELSE IF ParseDate(b.date) = InvalidDate
  THEN Refused(500, "Server error")
  ELSE LET a == NewAchievement(u, b, now)
       IN Outcome(Response(201, "", Returned(nextId, a)), achievements @@ (nextId :> a))

\* PUT /api/achievements/:id up to its write: findUnique applied, the owner
\* test, and the data of the update built (an Invalid Date in it makes the
\* update throw), `updatedAt: new Date()` included.
UpdateReadOutcome(u, id, b) ==
  IF NotFoundOrNotOwner(u, id)
  THEN Refused(404, "Achievement not found or unauthorized")
  ELSE IF ParseDate(b.date) = InvalidDate
  THEN Refused(500, "Server error")
  ELSE Awaiting([op |-> "UPDATE", u |-> u, id |-> id, body |-> b, stamp |-> now])

\* Mutant: an edit that writes the row anew when it is gone (an upsert).
UpdateWriteOutcome_Upserts(r) ==
  LET a == IF Exists(r.id)
           THEN UpdatedRecord(achievements[r.id], r.body, r.stamp)
           ELSE UpdatedRecord(NewAchievement(r.u, ScenarioA, r.stamp), r.body, r.stamp)
  IN Outcome(Response(200, "", Returned(r.id, a)),
             [i \in DOMAIN achievements \cup {r.id} |->
                IF i = r.id THEN a ELSE achievements[i]])

\* prisma.achievement.update applied to the row as it is now, and the 200; a
\* row that is gone by now makes the update throw, which the catch block
\* answers with 500.
UpdateWriteOutcome(r) ==
  IF ~Exists(r.id)
  THEN Refused(500, "Server error")
  ELSE LET a == UpdatedRecord(achievements[r.id], r.body, r.stamp)
       IN Outcome(Response(200, "", Returned(r.id, a)), [achievements EXCEPT ![r.id] = a])

\* DELETE /api/achievements/:id up to its write: findUnique applied and the
\* two tests.
DeleteReadOutcome(u, id) ==
  IF NotFoundOrNotOwner(u, id)
  THEN Refused(404, "Achievement not found or unauthorized")
  ELSE IF DeleteBlocked(id)
  THEN Refused(403, "Cannot delete an approved achievement.")
  ELSE Awaiting([op |-> "DELETE", u |-> u, id |-> id])

\* prisma.achievement.delete applied and the 204; a row that is gone by now
\* makes the delete throw, which the catch block answers with 500.
DeleteWriteOutcome(r) ==
  IF ~Exists(r.id)
  THEN Refused(500, "Server error")
  ELSE Outcome(Response(204, "", NoBody), DeletedStore(r.id))

\* PATCH /api/achievements/:id/verify, first step: user.findUnique applied;
\* the handler tests nothing yet and awaits achievement.findUnique.
VerifyStartOutcome(u, id, decision, reason) ==
  Awaiting([op |-> "VERIFY", at |-> "findUnique", u |-> u, id |-> id,
            decision |-> decision, reason |-> reason, coach |-> FoundUser(u)])

\* Mutant: a verify that looks for the achievement before it tests the caller.
VerifyCheckOutcome_ExistenceFirst(r) ==
  IF ~Exists(r.id)
  THEN Refused(404, "Achievement not found")
  ELSE IF ~IsCoachWithSport(r.coach)
  THEN Refused(403, "Forbidden: Not a coach")
  ELSE IF ~SameSport(r.coach, r.id)
  THEN Refused(403, "Forbidden: Cannot verify achievement for a different sport")
  ELSE Awaiting([op |-> "VERIFY", at |-> "update", u |-> r.u, id |-> r.id,
                 decision |-> r.decision, reason |-> r.reason, coach |-> r.coach,
                 stamp |-> now])

\* Second step: achievement.findUnique applied, the three tests on the coach
\* row read before and the achievement row read now, and the data of the
\* update built, `verifiedAt: new Date()` included.
VerifyCheckOutcome(r) ==
  IF ~IsCoachWithSport(r.coach)
  THEN Refused(403, "Forbidden: Not a coach")
  ELSE IF ~Exists(r.id)
  THEN Refused(404, "Achievement not found")
  ELSE IF ~SameSport(r.coach, r.id)
  THEN Refused(403, "Forbidden: Cannot verify achievement for a different sport")
  ELSE Awaiting([op |-> "VERIFY", at |-> "update", u |-> r.u, id |-> r.id,
                 decision |-> r.decision, reason |-> r.reason, coach |-> r.coach,
                 stamp |-> now])

\* Third step: prisma.achievement.update applied to the row as it is now, and
\* the 200; a row that is gone by now, or a status the column does not take,
\* makes the update throw, which the catch block answers with 500.
VerifyWriteOutcome(r) ==
  IF ~Exists(r.id) \/ ~StoreAcceptsStatus(r.decision)
  THEN Refused(500, "Server error")
  ELSE LET a == VerifiedRecord(achievements[r.id], r)
       IN Outcome(Response(200, "", Returned(r.id, a)), [achievements EXCEPT ![r.id] = a])

\* GET /api/achievements/pending, first step: user.findUnique applied and the
\* coach test.
ListPendingStartOutcome(u) ==
  IF ~IsCoachWithSport(FoundUser(u))
  THEN Refused(403, "Forbidden")
  ELSE Awaiting([op |-> "PENDING", u |-> u, coach |-> FoundUser(u)])

\* Second step: findMany applied with the sport of the coach row read before;
\* the answers it can give (one for each order the store may return).
ListPendingFindOutcomes(r) ==
  {Outcome(Response(200, "", list), achievements) :
     list \in PendingAchievements(r.coach[1].sport)}

\* Mutant: an owner's list that consumes what it lists.
ListMineOutcomes_Consumes(u) ==
  {Outcome(Response(200, "", list),
           [i \in DOMAIN achievements \ MineWhere(u) |-> achievements[i]]) :
     list \in MyAchievements(u)}

\* GET /api/achievements/my: findMany applied; the answers it can give.
ListMineOutcomes(u) ==
  {Outcome(Response(200, "", list), achievements) : list \in MyAchievements(u)}

\* GET /api/reports/coach, first step: user.findUnique applied, the coach
\* test, and the three window dates computed from the time now.
ReportStartOutcome(u) ==
  IF ~IsCoachWithSport(FoundUser(u))
  THEN Refused(403, "Forbidden")
  ELSE Awaiting([op |-> "REPORT", at |-> "achievement.groupBy", u |-> u,
                 coach |-> FoundUser(u), today |-> now])

\* achievement.groupBy applied, scoped by the sport of the coach row read
\* before and by the owners' rows as they are now.
ReportAchievements(r) ==
  Awaiting([r EXCEPT !.at = "tournamentRegistration.groupBy"]
           @@ [achievementsApproved |-> AchievementsCount(r.coach[1].sport, "APPROVED"),
               achievementsPending |-> AchievementsCount(r.coach[1].sport, "PENDING")])

\* tournamentRegistration.groupBy applied; schedule.count is issued with
\* `gte: new Date()`, the time now.
ReportRegistrations(r) ==
  Awaiting([r EXCEPT !.at = "schedule.count"]
           @@ [regPending |-> RegistrationsCount(r.coach[1].sport, "PENDING"),
               regConfirmed |-> RegistrationsCount(r.coach[1].sport, "CONFIRMED"),
               from |-> now])

\* schedule.count applied, up to sevenDaysFromNow.
ReportSessions(r) ==
  Awaiting([r EXCEPT !.at = "scheduleRequest.findMany"]
           @@ [upcomingSessions7d |-> UpcomingSessions7d(r.u, r.from, r.today + SevenDays)])

\* The first scheduleRequest.findMany applied: scheduleRequests30d, of which
\* the handler uses the length and the length of the APPROVED part.
ReportRequests30d(r) ==
  LET found == ScheduleRequests30d(r.u, r.today)
  IN Awaiting([r EXCEPT !.at = "scheduleRequest.findMany distinct"]
              @@ [total30d |-> Cardinality(found),
                  approved30d |-> Cardinality({q \in found :
                                                 scheduleRequests[q].status = "APPROVED"})])

\* The second scheduleRequest.findMany applied: activePlayerIds, and the kpis
\* answered.
ReportActivePlayers(r) ==
  Outcome(Response(200, "", <<Kpis(r, ActivePlayerIds(r.u, r.today))>>), achievements)

\* The step of a report that awaits the query r.at.
ReportStepOutcome(r) ==
  CASE r.at = "achievement.groupBy" -> ReportAchievements(r)
    [] r.at = "tournamentRegistration.groupBy" -> ReportRegistrations(r)
    [] r.at = "schedule.count" -> ReportSessions(r)
    [] r.at = "scheduleRequest.findMany" -> ReportRequests30d(r)
    [] r.at = "scheduleRequest.findMany distinct" -> ReportActivePlayers(r)

\* ---------------------------------------------------------------- actions
\* What a step leaves: its response, if it sends one, and the tables.
Effect(o) ==
  /\ resp' = IF o.resp = NoResponse THEN resp ELSE o.resp
  /\ achievements' = o.store
  /\ users' = o.users
  /\ UNCHANGED <<now, reportTables>>

\* The first step of a request the server accepts.
Accept(o) ==
  /\ accepted < MaxAccepted
  /\ accepted' = accepted + 1
  /\ o.awaits # {} => BagCardinality(inflight) < MaxInFlight
  /\ inflight' = inflight (+) SetToBag(o.awaits)
  /\ Effect(o)

\* A later step of the request r, whose awaited query is applied.
Resume(r, o) ==
  /\ BagIn(r, inflight)
  /\ inflight' = (inflight (-) SetToBag({r})) (+) SetToBag(o.awaits)
  /\ UNCHANGED accepted
  /\ Effect(o)

\* The requests that await a query.
Waiting == BagToSet(inflight)

\* Time passes.
Tick ==
  /\ now < MaxClock
  /\ now' = now + 1
  /\ UNCHANGED <<users, achievements, nextId, resp, reportTables, inflight, accepted>>

Create(u, b) ==
  /\ u \in DOMAIN users
  /\ LET o == CreateOutcome(u, b)
     IN /\ o.resp.code = 201 => nextId <= MaxAch
        /\ Accept(o)
        /\ nextId' = IF o.resp.code = 201 THEN nextId + 1 ELSE nextId

UpdateRead(u, id, b) ==
  /\ u \in DOMAIN users
  /\ Accept(UpdateReadOutcome(u, id, b))
  /\ UNCHANGED nextId

UpdateWrite(r) ==
  /\ r.op = "UPDATE"
  /\ Resume(r, UpdateWriteOutcome(r))
  /\ UNCHANGED nextId

DeleteRead(u, id) ==
  /\ u \in DOMAIN users
  /\ Accept(DeleteReadOutcome(u, id))
  /\ UNCHANGED nextId

DeleteWrite(r) ==
  /\ r.op = "DELETE"
  /\ Resume(r, DeleteWriteOutcome(r))
  /\ UNCHANGED nextId

VerifyStart(u, id, decision, reason) ==
  /\ u \in DOMAIN users
  /\ Accept(VerifyStartOutcome(u, id, decision, reason))
  /\ UNCHANGED nextId

VerifyCheck(r) ==
  /\ r.op = "VERIFY" /\ r.at = "findUnique"
  /\ Resume(r, VerifyCheckOutcome(r))
  /\ UNCHANGED nextId

VerifyWrite(r) ==
  /\ r.op = "VERIFY" /\ r.at = "update"
  /\ Resume(r, VerifyWriteOutcome(r))
  /\ UNCHANGED nextId

ListPendingStart(u) ==
  /\ u \in DOMAIN users
  /\ Accept(ListPendingStartOutcome(u))
  /\ UNCHANGED nextId

ListPendingFind(r) ==
  /\ r.op = "PENDING"
  /\ \E o \in ListPendingFindOutcomes(r) : Resume(r, o)
  /\ UNCHANGED nextId

ListMine(u) ==
  /\ u \in DOMAIN users
  /\ \E o \in ListMineOutcomes(u) : Accept(o)
  /\ UNCHANGED nextId

ReportStart(u) ==
  /\ u \in DOMAIN users
  /\ Accept(ReportStartOutcome(u))
  /\ UNCHANGED nextId

ReportStep(r) ==
  /\ r.op = "REPORT"
  /\ Resume(r, ReportStepOutcome(r))
  /\ UNCHANGED nextId

\* The verify bodies a coach sends in the workflow: an approval, a rejection
\* with and without a reason, and a decision of PENDING.
Verdicts ==
  {v \in VerifyBodies :
     /\ v.decision \in {"APPROVED", "REJECTED", "PENDING"}
     /\ v.decision = "APPROVED" => v.reason = Absent}

\* asha (u1), a player, submits; ravi (u2), a coach of cricket, of football
\* or of no sport yet, verifies and lists; each of them edits and deletes, or
\* tries to.
Init ==
  /\ InitWorkflow
  /\ users["u1"].role = "Player"
  /\ registrations = NoRows
  /\ schedules = NoRows
  /\ scheduleRequests = NoRows

Next ==
  \/ Tick
  \/ \E b \in CreateBodies : Create("u1", b)
  \/ \E u \in UserIds, id \in AchIds, b \in UpdateBodies : UpdateRead(u, id, b)
  \/ \E r \in Waiting : UpdateWrite(r)
  \/ \E u \in UserIds, id \in AchIds : DeleteRead(u, id)
  \/ \E r \in Waiting : DeleteWrite(r)
  \/ \E id \in AchIds, v \in Verdicts : VerifyStart("u2", id, v.decision, v.reason)
  \/ \E r \in Waiting : VerifyCheck(r)
  \/ \E r \in Waiting : VerifyWrite(r)
  \/ ListPendingStart("u2")
  \/ \E r \in Waiting : ListPendingFind(r)

Spec == Init /\ [][Next]_vars

\* ------------------------------------------------- the reads on live data
\* Tournament registrations: asha (u1) pending once, confirmed twice and
\* cancelled once; ravi (u2) pending once.
Registrations ==
  <<[playerId |-> "u1", regStatus |-> "PENDING"],
    [playerId |-> "u1", regStatus |-> "CONFIRMED"],
    [playerId |-> "u1", regStatus |-> "CONFIRMED"],
    [playerId |-> "u1", regStatus |-> "CANCELLED"],
    [playerId |-> "u2", regStatus |-> "PENDING"]>>

\* Coaching sessions as of time t: ravi's (u2) in seven days and in eight, and
\* asha's (u1) today.
Sessions(t) ==
  <<[coachId |-> "u2", date |-> t + SevenDays],
    [coachId |-> "u2", date |-> t + SevenDays + 1],
    [coachId |-> "u1", date |-> t]>>

RequestRow(scheduleId, playerId, status, createdAt) ==
  [scheduleId |-> scheduleId, playerId |-> playerId, status |-> status,
   createdAt |-> createdAt]

\* Schedule requests as of time t: for ravi's first session, a APPROVED ones
\* made thirty days ago and p PENDING ones made seven days ago; and, with
\* `others`, an APPROVED one made thirty-one days ago and an APPROVED one for
\* asha's session made today.
RequestTable(a, p, others, t) ==
  [i \in 1..a |-> RequestRow(1, "u1", "APPROVED", t - ThirtyDays)]
  \o [i \in 1..p |-> RequestRow(1, "u2", "PENDING", t - SevenDays)]
  \o (IF others
      THEN <<RequestRow(1, "u1", "APPROVED", t - ThirtyDays - 1),
             RequestRow(3, "u2", "APPROVED", t)>>
      ELSE << >>)

\* asha (u1), a player, submits and deletes; ravi (u2), a coach of cricket or
\* of no sport yet, approves; both list and ask for the report, next to
\* registrations, sessions and schedule requests that are already there.
InitReads ==
  /\ InitWorkflow
  /\ users["u1"].role = "Player" /\ users["u2"].sport # "football"
  /\ registrations = Registrations
  /\ schedules = Sessions(now)
  /\ scheduleRequests = RequestTable(1, 2, TRUE, now)

\* The creates that store a record.
WellFormed(b) == ~MissingRequired(b) /\ ParseDate(b.date) # InvalidDate
\* An approval, and a rejection with its reason.
Rulings ==
  {v \in VerifyBodies :
     \/ v.decision = "APPROVED" /\ v.reason = Absent
     \/ v.decision = "REJECTED" /\ v.reason # Absent}
\* The edit that moves an achievement to another sport and venue.
Transfers == {b \in UpdateBodies : b.sport = "football"}

NextReads ==
  \/ Tick
  \/ \E b \in {c \in CreateBodies : WellFormed(c)} : Create("u1", b)
  \/ \E id \in AchIds : DeleteRead("u1", id)
  \/ \E r \in Waiting : DeleteWrite(r)
  \/ \E id \in AchIds : VerifyStart("u2", id, "APPROVED", Absent)
  \/ \E r \in Waiting : VerifyCheck(r)
  \/ \E r \in Waiting : VerifyWrite(r)
  \/ \E u \in UserIds : ListPendingStart(u)
  \/ \E r \in Waiting : ListPendingFind(r)
  \/ \E u \in UserIds : ListMine(u)
  \/ \E u \in UserIds : ReportStart(u)
  \/ \E r \in Waiting : ReportStep(r)

SpecReads == InitReads /\ [][NextReads]_vars

\* ------------------------------------------- the report's attendance rate
\* The coach report over every split of up to MaxRequests schedule requests
\* of the last 30 days into APPROVED and not, with and without the requests
\* that are outside the window or under another coach's schedule.
InitAttendance ==
  /\ InitWorkflow
  /\ users["u1"].role = "Player" /\ users["u2"].sport = "cricket"
  /\ registrations = Registrations
  /\ schedules = Sessions(now)
  /\ scheduleRequests \in
       {RequestTable(s[1], s[2], s[3], now) :
          s \in {x \in (0..MaxRequests) \X (0..MaxRequests) \X BOOLEAN :
                   x[1] + x[2] <= MaxRequests}}

NextAttendance ==
  \/ \E u \in UserIds : ReportStart(u)
  \/ \E r \in Waiting : ReportStep(r)

SpecAttendance == InitAttendance /\ [][NextAttendance]_vars

\* ------------------------------------------------ deletes and verifications
\* asha (u1) submits and deletes; ravi (u2), the cricket coach, rules.
InitRace ==
  /\ Init
  /\ users["u2"].sport = "cricket"

NextRace ==
  \/ Tick
  \/ Create("u1", ScenarioA)
  \/ \E id \in AchIds : DeleteRead("u1", id)
  \/ \E r \in Waiting : DeleteWrite(r)
  \/ \E id \in AchIds, v \in Rulings : VerifyStart("u2", id, v.decision, v.reason)
  \/ \E r \in Waiting : VerifyCheck(r)
  \/ \E r \in Waiting : VerifyWrite(r)

SpecRace == InitRace /\ [][NextRace]_vars

\* ------------------------------ edits, deletes and two coaches' verifications
\* The verifications that carry a decision and a reason.
Reasoned ==
  {v \in VerifyBodies : v.decision \in {"APPROVED", "REJECTED"} /\ v.reason # Absent}

\* asha (u1) and ravi (u2) both coach cricket; asha also submits, moves and
\* deletes achievements.
InitOverlap ==
  /\ InitWorkflow
  /\ \A u \in UserIds : users[u].role = "Coach"
  /\ registrations = NoRows
  /\ schedules = NoRows
  /\ scheduleRequests = NoRows

NextOverlap ==
  \/ Tick
  \/ Create("u1", ScenarioA)
  \/ \E id \in AchIds, b \in Transfers : UpdateRead("u1", id, b)
  \/ \E r \in Waiting : UpdateWrite(r)
  \/ \E id \in AchIds : DeleteRead("u1", id)
  \/ \E r \in Waiting : DeleteWrite(r)
  \/ \E u \in UserIds, id \in AchIds, v \in Reasoned :
       VerifyStart(u, id, v.decision, v.reason)
  \/ \E r \in Waiting : VerifyCheck(r)
  \/ \E r \in Waiting : VerifyWrite(r)

SpecOverlap == InitOverlap /\ [][NextOverlap]_vars

\* Two coaches' verifications of asha's submissions on their own.
NextVerdicts ==
  \/ Tick
  \/ Create("u1", ScenarioA)
  \/ \E u \in UserIds, id \in AchIds, v \in Reasoned :
       VerifyStart(u, id, v.decision, v.reason)
  \/ \E r \in Waiting : VerifyCheck(r)
  \/ \E r \in Waiting : VerifyWrite(r)

SpecVerdicts == InitOverlap /\ [][NextVerdicts]_vars

\* --------------------------------------------- registration and profile
\* Bodies of POST /api/auth/register for the user u: complete, and without a
\* password.
RegisterBodies(u) ==
  {[username |-> Username(u), email |-> Username(u), password |-> pw] :
     pw \in {"secret", Absent}}

\* Bodies of PATCH /api/me: becoming a coach of a sport, taking a sport,
\* becoming a coach, going back to player, and a mobile number that is not ten
\* digits.
PatchBodies ==
  {[role |-> "Coach", sport |-> "cricket", mobile |-> Absent],
   [role |-> Absent, sport |-> "football", mobile |-> "9876543210"],
   [role |-> "Coach", sport |-> Absent, mobile |-> Absent],
   [role |-> "Player", sport |-> Absent, mobile |-> Absent],
   [role |-> "Coach", sport |-> "cricket", mobile |-> "12345"]}

\* /^[0-9]{10}$/.test(String(mobile)) for the numbers the bodies carry.
TenDigits(mobile) == mobile = "9876543210"

\* toPublicUser(user) in a response body.
PublicUser(u, row) == <<[id |-> u, record |-> row]>>

\* POST /api/auth/register up to its write: the presence test, and
\* user.findFirst by email or username applied.
RegisterStartOutcome(u, b) ==
  IF Falsy(b.username) \/ Falsy(b.email) \/ Falsy(b.password)
  THEN Refused(400, "Missing required fields")
  ELSE IF \E w \in DOMAIN users : users[w].username = b.username
  THEN Refused(409, "User already exists")
  ELSE Awaiting([op |-> "REGISTER", u |-> u, body |-> b])

\* prisma.user.create applied: a new user is a Player without a sport, and
\* holds the session token of the new row from then on.  With the username
\* taken since the handler looked, the create throws on the unique username
\* and the catch block answers 500.
RegisterCreateOutcome(r) ==
  IF \E w \in DOMAIN users : users[w].username = r.body.username
  THEN Refused(500, "Server error")
  ELSE LET row == UserRow(r.u, "Player", Null)
       IN [Outcome(Response(201, "", PublicUser(r.u, row)), achievements)
             EXCEPT !.users = [w \in DOMAIN users \cup {r.u} |->
                                 IF w = r.u THEN row ELSE users[w]]]

\* PATCH /api/me: the mobile test and prisma.user.update applied; role and
\* sport are written as given, whoever asks.
PatchMeOutcome(u, b) ==
  IF ~Falsy(b.mobile) /\ ~TenDigits(b.mobile)
  THEN Refused(400, "Mobile must be 10 digits")
  ELSE IF u \notin DOMAIN users
  THEN Refused(500, "Server error")
  ELSE LET row == [users[u] EXCEPT !.role = Patch(@, b.role),
                                   !.sport = Patch(@, b.sport)]
       IN [Outcome(Response(200, "", PublicUser(u, row)), achievements)
             EXCEPT !.users = [users EXCEPT ![u] = row]]

RegisterStart(u, b) ==
  /\ Accept(RegisterStartOutcome(u, b))
  /\ UNCHANGED nextId

RegisterCreate(r) ==
  /\ r.op = "REGISTER"
  /\ Resume(r, RegisterCreateOutcome(r))
  /\ UNCHANGED nextId

PatchMe(u, b) ==
  /\ u \in DOMAIN users
  /\ Accept(PatchMeOutcome(u, b))
  /\ UNCHANGED nextId

\* ravi (u2) has registered; nothing is stored.
InitProfile ==
  /\ users = [u \in {"u2"} |-> UserRow(u, "Player", Null)]
  /\ achievements = << >>
  /\ nextId = 1
  /\ now = 1
  /\ resp = NoResponse
  /\ inflight = EmptyBag
  /\ accepted = 0
  /\ registrations = NoRows
  /\ schedules = NoRows
  /\ scheduleRequests = NoRows

\* Registrations and profile updates between creates, edits and verifications.
NextProfile ==
  \/ Tick
  \/ \E u \in UserIds : \E b \in RegisterBodies(u) : RegisterStart(u, b)
  \/ \E r \in Waiting : RegisterCreate(r)
  \/ \E u \in UserIds, b \in PatchBodies : PatchMe(u, b)
  \/ \E u \in UserIds : Create(u, ScenarioA)
  \/ \E u \in UserIds, id \in AchIds, b \in Transfers : UpdateRead(u, id, b)
  \/ \E r \in Waiting : UpdateWrite(r)
  \/ \E u \in UserIds, id \in AchIds, v \in Rulings :
       VerifyStart(u, id, v.decision, v.reason)
  \/ \E r \in Waiting : VerifyCheck(r)
  \/ \E r \in Waiting : VerifyWrite(r)

SpecProfile == InitProfile /\ [][NextProfile]_vars

\* ------------------------------------------- whose achievements a coach counts
\* A submission of cricket and one of football.
Submissions == {b \in CreateBodies : WellFormed(b)}

\* asha (u1) and ravi (u2) in each of the directories; both submit, change
\* role and sport, approve and ask for the report.
InitScope ==
  /\ InitWorkflow
  /\ registrations = Registrations
  /\ schedules = NoRows
  /\ scheduleRequests = NoRows

NextScope ==
  \/ \E u \in UserIds, b \in Submissions : Create(u, b)
  \/ \E u \in UserIds, b \in PatchBodies : PatchMe(u, b)
  \/ \E u \in UserIds, id \in AchIds : VerifyStart(u, id, "APPROVED", Absent)
  \/ \E r \in Waiting : VerifyCheck(r)
  \/ \E r \in Waiting : VerifyWrite(r)
  \/ \E u \in UserIds : ReportStart(u)
  \/ \E r \in Waiting : ReportStep(r)

SpecScope == InitScope /\ [][NextScope]_vars

\* ----------------------------------------------------------------- claims
\* The fields an owner edit may carry.
OwnerFields == {"title", "sport", "date", "venue", "description"}
\* The fields the verification stamps.
VerifierFields == {"verifiedById", "verifiedByName", "verifiedAt"}
\* The required fields of a create request.
RequiredFields == {"title", "date", "sport", "venue"}

\* A caller whose token names no row of the user table.
NoSuchUser == "u0"
Callers == UserIds \cup {NoSuchUser}

\* The theorems below are stated on the handlers' steps: in every reachable
\* state, what each step answers and leaves, for every request that is
\* awaiting the step and for every request of the input sets whose earlier
\* steps could be taken in this state.  The claims that fail are stated on
\* the steps taken.

\* P holds of every edit that may be awaiting its write.
ForUpdateWrites(P(_)) ==
  /\ \A r \in Waiting : r.op = "UPDATE" => P(r)
  /\ \A u \in DOMAIN users, id \in AchIds, b \in UpdateBodies :
       \A r \in UpdateReadOutcome(u, id, b).awaits : P(r)

\* P holds of every delete that may be awaiting its write.
ForDeleteWrites(P(_)) ==
  /\ \A r \in Waiting : r.op = "DELETE" => P(r)
  /\ \A u \in DOMAIN users, id \in AchIds :
       \A r \in DeleteReadOutcome(u, id).awaits : P(r)

\* P holds of every verification that may be awaiting the achievement it
\* names.
ForVerifyChecks(P(_)) ==
  /\ \A r \in Waiting : (r.op = "VERIFY" /\ r.at = "findUnique") => P(r)
  /\ \A u \in Callers, id \in AchIds, v \in VerifyBodies :
       \A r \in VerifyStartOutcome(u, id, v.decision, v.reason).awaits : P(r)

\* P holds of every verification that may be awaiting its write.
ForVerifyWrites(P(_)) ==
  /\ \A r \in Waiting : (r.op = "VERIFY" /\ r.at = "update") => P(r)
  /\ ForVerifyChecks(LAMBDA r : \A w \in VerifyCheckOutcome(r).awaits : P(w))

\* P holds of every pending list that may be awaiting its findMany.
ForPendingFinds(P(_)) ==
  /\ \A r \in Waiting : r.op = "PENDING" => P(r)
  /\ \A u \in Callers : \A r \in ListPendingStartOutcome(u).awaits : P(r)

\* P holds of the outcome of every step of a request other than a verify, in
\* the current state.
ForOwnerAndListOutcomes(P(_)) ==
  /\ \A u \in DOMAIN users, b \in CreateBodies : P(CreateOutcome(u, b))
  /\ \A u \in DOMAIN users, id \in AchIds, b \in UpdateBodies :
       P(UpdateReadOutcome(u, id, b))
  /\ ForUpdateWrites(LAMBDA r : P(UpdateWriteOutcome(r)))
  /\ \A u \in DOMAIN users, id \in AchIds : P(DeleteReadOutcome(u, id))
  /\ ForDeleteWrites(LAMBDA r : P(DeleteWriteOutcome(r)))
  /\ \A u \in Callers : P(ListPendingStartOutcome(u))
  /\ ForPendingFinds(LAMBDA r : \A o \in ListPendingFindOutcomes(r) : P(o))

\* C1: in every reachable state every stored achievement has status REJECTED
\* exactly when its decisionReason is non-null.
C1_RejectedIffReason ==
  \A id \in DOMAIN achievements :
    (achievements[id].status = "REJECTED") <=> (achievements[id].decisionReason # Null)

\* C2: a Delete request by the owner of an achievement that it finds APPROVED
\* answers 403 "Cannot delete an approved achievement.", issues no delete and
\* leaves the store as it was, the record included.
C2_ApprovedDeleteConflicts ==
  \A u \in DOMAIN users, id \in DOMAIN achievements :
    (achievements[id].status = "APPROVED" /\ achievements[id].ownerId = u)
    => LET o == DeleteReadOutcome(u, id)
       IN /\ o.resp.code = 403
          /\ o.resp.error = "Cannot delete an approved achievement."
          /\ o.awaits = {}
          /\ id \in DOMAIN o.store
          /\ o.store = achievements

\* C2 witness: an owner's Delete of an APPROVED record has just been refused.
C2_Witness ==
  /\ resp.code = 403
  /\ resp.error = "Cannot delete an approved achievement."
  /\ \E id \in DOMAIN achievements : achievements[id].status = "APPROVED"

\* C3: a Verify request that finds an achievement whose sport differs from
\* the sport of the caller's row answers 403, issues no update and writes
\* nothing, whoever the caller is and whatever decision and reason it carries.
C3_NoVerifyAcrossSports ==
  ForVerifyChecks(LAMBDA r :
    (Exists(r.id) /\ (r.coach = << >> \/ achievements[r.id].sport # r.coach[1].sport))
    => LET o == VerifyCheckOutcome(r)
       IN /\ o.resp.code = 403
          /\ o.awaits = {}
          /\ o.store = achievements)

\* C3 witness: a coach with a sport has just been refused on a record of
\* another sport.
C3_Witness ==
  /\ resp.code = 403
  /\ resp.error = "Forbidden: Cannot verify achievement for a different sport"
  /\ \E u \in DOMAIN users, id \in DOMAIN achievements :
       /\ users[u].role = "Coach"
       /\ users[u].sport \in Sports
       /\ achievements[id].sport # users[u].sport

\* C4: no step that applies the Update of the owner of an APPROVED
\* achievement changes its title, sport, date, venue or description.
C4_ApprovedImmutableToOwner ==
  [][\A r \in Waiting :
       (/\ UpdateWrite(r)
        /\ Exists(r.id)
        /\ achievements[r.id].status = "APPROVED"
        /\ achievements[r.id].ownerId = r.u)
       => \A f \in OwnerFields : achievements'[r.id][f] = achievements[r.id][f]]_vars

\* C5: a record that a request adds starts PENDING; no step of a Create,
\* Update, Delete or listing changes the status of a stored record (an owner
\* edit of a REJECTED or APPROVED record included); a Verify changes no status
\* but that of the record it names, and only with its write.
C5_OnlyVerifyChangesStatus ==
  /\ LET StatusKept(o) ==
           \A i \in DOMAIN o.store :
             o.store[i].status = IF i \in DOMAIN achievements
                                 THEN achievements[i].status ELSE "PENDING"
     IN ForOwnerAndListOutcomes(StatusKept)
  /\ ForVerifyChecks(LAMBDA r : VerifyCheckOutcome(r).store = achievements)
  /\ ForVerifyWrites(LAMBDA r :
       LET o == VerifyWriteOutcome(r)
       IN /\ DOMAIN o.store = DOMAIN achievements
          /\ \A i \in DOMAIN achievements \ {r.id} :
               o.store[i].status = achievements[i].status)

\* C5 witness: an owner edit of a REJECTED record has been applied and the
\* record is still REJECTED.
C5_Witness ==
  /\ resp.code = 200
  /\ Waiting = {}
  /\ \E id \in DOMAIN achievements :
       /\ achievements[id].status = "REJECTED"
       /\ achievements[id].updatedAt > achievements[id].verifiedAt
       /\ achievements[id].venue = "Mumbai"
       /\ resp.body = Returned(id, achievements[id])

\* C6: every stored status is PENDING, APPROVED or REJECTED, and every step
\* that applies a Verify and answers 200 leaves the record APPROVED or
\* REJECTED, whatever decision it carries.
C6_VerifyDecides ==
  [][/\ \A id \in DOMAIN achievements' : achievements'[id].status \in StatusValues
     /\ \A r \in Waiting :
          (VerifyWrite(r) /\ resp'.code = 200)
          => achievements'[r.id].status \in {"APPROVED", "REJECTED"}]_vars

\* The verifier fields of a record are all null or all non-null.
VerifierAllOrNone(a) ==
  \/ a.verifiedById = Null /\ a.verifiedByName = Null /\ a.verifiedAt = NullTime
  \/ a.verifiedById # Null /\ a.verifiedByName # Null /\ a.verifiedAt # NullTime

\* No step of an owner or listing request sets or changes a verifier field.
VerifierUntouchedByOwner ==
  LET Untouched(o) ==
        \A i \in DOMAIN o.store :
          IF i \in DOMAIN achievements
          THEN \A f \in VerifierFields : o.store[i][f] = achievements[i][f]
          ELSE o.store[i].verifiedById = Null /\ o.store[i].verifiedAt = NullTime
  IN ForOwnerAndListOutcomes(Untouched)

\* C7 (as claimed): the verifier fields are all null or all non-null, and
\* once they are non-null no step changes them.
C7_VerifierSetOnce ==
  [][/\ \A id \in DOMAIN achievements' : VerifierAllOrNone(achievements'[id])
     /\ \A id \in DOMAIN achievements \cap DOMAIN achievements' :
          achievements[id].verifiedById # Null
          => \A f \in VerifierFields : achievements'[id][f] = achievements[id][f]]_vars

\* C7 (amended): the verifier fields are all null or all non-null, no owner
\* request sets or changes them, and every Verify that succeeds sets the three
\* together to the acting coach, the coach's username and the time at which
\* the handler built its update, on the record it names and on no other, also
\* when they were set before.
C7_VerifierSetByEachVerify ==
  /\ \A id \in DOMAIN achievements : VerifierAllOrNone(achievements[id])
  /\ VerifierUntouchedByOwner
  /\ ForVerifyChecks(LAMBDA r :
       LET o == VerifyCheckOutcome(r)
       IN /\ o.store = achievements
          /\ \A w \in o.awaits : w.stamp = now)
  /\ ForVerifyWrites(LAMBDA r :
       LET o == VerifyWriteOutcome(r)
       IN /\ r.stamp \in 1..now
          /\ \A i \in DOMAIN achievements \ {r.id} :
               \A f \in VerifierFields : o.store[i][f] = achievements[i][f]
          /\ IF o.resp.code = 200
             THEN /\ o.store[r.id].verifiedById = r.u
                  /\ o.store[r.id].verifiedByName = Username(r.u)
                  /\ o.store[r.id].verifiedAt = r.stamp
             ELSE o.store = achievements)

\* C7 witness: a record verified by a coach and edited by its owner afterwards
\* still carries the three verifier fields.
C7_Witness ==
  \E id \in DOMAIN achievements :
    /\ achievements[id].verifiedById # Null
    /\ achievements[id].verifiedByName # Null
    /\ achievements[id].verifiedAt # NullTime
    /\ achievements[id].updatedAt > achievements[id].verifiedAt

\* The cases in which a verify request is refused, on the coach row and the
\* achievement the handler finds: the caller is no Coach, has no sport, the
\* achievement does not exist, or its sport is not the caller's.
VerifyRefusedCase(coach, id) ==
  \/ coach = << >>
  \/ coach[1].role # "Coach"
  \/ coach[1].sport \notin Sports
  \/ id \notin DOMAIN achievements
  \/ achievements[id].sport # coach[1].sport

\* C8 (as claimed): every step in which a Verify request meets a refused case
\* answers 403 and mutates no record.
C8_VerifyRefusedForbidden ==
  [][\A r \in Waiting :
       (VerifyCheck(r) /\ VerifyRefusedCase(r.coach, r.id))
       => (resp'.code = 403 /\ achievements' = achievements)]_vars

\* C8 (amended): in each refused case no record is mutated and no update is
\* issued; the Verify answers 403, except that a Coach with a sport naming an
\* achievement that does not exist is answered 404 "Achievement not found".
C8_VerifyRefusedForbiddenOrNotFound ==
  ForVerifyChecks(LAMBDA r :
    VerifyRefusedCase(r.coach, r.id)
    => LET o == VerifyCheckOutcome(r)
       IN /\ o.store = achievements
          /\ o.awaits = {}
          /\ IF /\ r.coach # << >>
                /\ r.coach[1].role = "Coach"
                /\ r.coach[1].sport \in Sports
                /\ r.id \notin DOMAIN achievements
             THEN o.resp.code = 404 /\ o.resp.error = "Achievement not found"
             ELSE o.resp.code = 403)

\* C8 witness: a Coach with a sport has just been answered 404 for an
\* achievement id that is not in the store.
C8_Witness ==
  /\ resp.code = 404
  /\ resp.error = "Achievement not found"
  /\ \E u \in DOMAIN users : users[u].role = "Coach" /\ users[u].sport \in Sports
  /\ \E id \in AchIds : id \notin DOMAIN achievements

\* C9: for a Coach with a sport the pending list is answered 200 and holds,
\* once each and as stored, exactly the achievements that are PENDING and of
\* the coach's sport, none before one created later.
C9_PendingListExact ==
  /\ \A u \in DOMAIN users :
       (users[u].role = "Coach" /\ users[u].sport \in Sports)
       => ListPendingStartOutcome(u).awaits # {}
  /\ ForPendingFinds(LAMBDA r :
       (/\ r.u \in DOMAIN users
        /\ r.coach = <<users[r.u]>>
        /\ users[r.u].role = "Coach" /\ users[r.u].sport \in Sports)
       => /\ ListPendingFindOutcomes(r) # {}
          /\ \A o \in ListPendingFindOutcomes(r) :
               LET body == o.resp.body
               IN /\ o.resp.code = 200
                  /\ Len(body) = Cardinality({body[k].id : k \in 1..Len(body)})
                  /\ {body[k].id : k \in 1..Len(body)} =
                       {id \in DOMAIN achievements :
                          /\ achievements[id].status = "PENDING"
                          /\ achievements[id].sport = users[r.u].sport}
                  /\ \A k \in 1..Len(body) : body[k].record = achievements[body[k].id]
                  /\ \A k \in 1..Len(body) : \A l \in 1..Len(body) :
                       k < l => body[k].record.createdAt >= body[l].record.createdAt)

\* C9 witness: a coach has just been sent a pending list of two records, the
\* later created first.
C9_Witness ==
  /\ resp.code = 200
  /\ Len(resp.body) = 2
  /\ resp.body[1].record.status = "PENDING"
  /\ resp.body[1].owner = "asha"
  /\ resp.body[1].record.createdAt > resp.body[2].record.createdAt

\* C10: every step that is a Create request whose title, date, sport and
\* venue are all present (given and non-empty) adds one PENDING record owned
\* by the caller and changes no other; with one of them absent it answers 400
\* and adds none.
C10_CreateAllPresent ==
  [][\A u \in DOMAIN users, b \in CreateBodies :
       Create(u, b)
       => IF \A f \in RequiredFields : b[f] \notin {Absent, ""}
          THEN /\ resp'.code = 201
               /\ DOMAIN achievements' = DOMAIN achievements \cup {nextId}
               /\ achievements'[nextId].status = "PENDING"
               /\ achievements'[nextId].ownerId = u
               /\ \A i \in DOMAIN achievements : achievements'[i] = achievements[i]
          ELSE resp'.code = 400 /\ achievements' = achievements]_vars

\* C11: for Update and Delete, the outcome for a caller who does not own an
\* existing achievement is the outcome for an id that names no record: the same
\* 404 "Achievement not found or unauthorized", whatever the record holds and
\* whatever its status (APPROVED included); no write is issued and the store
\* is left as it was.
C11_NonOwnerSeesNotFound ==
  \A u \in DOMAIN users, id \in DOMAIN achievements :
    achievements[id].ownerId # u
    => /\ ~Exists(nextId)
       /\ \A b \in UpdateBodies :
            /\ UpdateReadOutcome(u, id, b) = UpdateReadOutcome(u, nextId, b)
            /\ UpdateReadOutcome(u, id, b).resp =
                 Response(404, "Achievement not found or unauthorized", NoBody)
            /\ UpdateReadOutcome(u, id, b).awaits = {}
            /\ UpdateReadOutcome(u, id, b).store = achievements
       /\ DeleteReadOutcome(u, id) = DeleteReadOutcome(u, nextId)
       /\ DeleteReadOutcome(u, id).resp =
            Response(404, "Achievement not found or unauthorized", NoBody)
       /\ DeleteReadOutcome(u, id).awaits = {}
       /\ DeleteReadOutcome(u, id).store = achievements

\* C11 witness: a 404 of Update or Delete has just been answered while every
\* stored record is APPROVED and there is a user who owns none of them.
C11_Witness ==
  /\ resp = Response(404, "Achievement not found or unauthorized", NoBody)
  /\ DOMAIN achievements # {}
  /\ \A id \in DOMAIN achievements :
       achievements[id].status = "APPROVED" /\ achievements[id].ownerId = "u1"


\* C13: a Verify answered 200 with decision APPROVED leaves the record
\* APPROVED with a null decisionReason and the acting coach as verifiedById,
\* whatever its status was; one with decision REJECTED leaves it REJECTED with
\* the decisionReason the request supplied (none when it supplied none).
C13_VerifyWritesDecision ==
  [][\A r \in Waiting :
       (VerifyWrite(r) /\ resp'.code = 200)
       => /\ r.decision = "APPROVED"
             => /\ achievements'[r.id].status = "APPROVED"
                /\ achievements'[r.id].decisionReason = Null
                /\ achievements'[r.id].verifiedById = r.u
          /\ r.decision = "REJECTED"
             => /\ achievements'[r.id].status = "REJECTED"
                /\ achievements'[r.id].decisionReason =
                     (IF r.reason = Absent THEN Null ELSE r.reason)]_vars

\* C14: a Delete request by the owner of an achievement that it finds not
\* APPROVED succeeds and removes exactly that record: the step that applies
\* its delete answers 204, the id names no record afterwards and every other
\* record is as it was.
C14_OwnerDeleteSucceeds ==
  [][\A r \in Waiting :
       DeleteWrite(r)
       => /\ resp' = Response(204, "", NoBody)
          /\ DOMAIN achievements' = DOMAIN achievements \ {r.id}
          /\ \A i \in DOMAIN achievements' : achievements'[i] = achievements[i]]_vars

\* C15: the ownerId of an achievement is the caller of the Create that stored
\* it and never changes: a Create stores its caller as ownerId, and no step of
\* an Update or of a Verify request, by any caller and with any body, leaves a
\* stored record with another ownerId than it had.
C15_OwnerNeverChanges ==
  LET OwnersKept(o) ==
        \A i \in DOMAIN o.store \cap DOMAIN achievements :
          o.store[i].ownerId = achievements[i].ownerId
  IN /\ \A u \in DOMAIN users, b \in CreateBodies :
          LET o == CreateOutcome(u, b)
          IN /\ OwnersKept(o)
             /\ \A i \in DOMAIN o.store \ DOMAIN achievements : o.store[i].ownerId = u
     /\ \A u \in DOMAIN users, id \in AchIds, b \in UpdateBodies :
          OwnersKept(UpdateReadOutcome(u, id, b))
     /\ ForUpdateWrites(LAMBDA r : OwnersKept(UpdateWriteOutcome(r)))
     /\ ForVerifyChecks(LAMBDA r : OwnersKept(VerifyCheckOutcome(r)))
     /\ ForVerifyWrites(LAMBDA r : OwnersKept(VerifyWriteOutcome(r)))

\* C15 witness: a record created by u1 has been edited by its owner and,
\* later, verified by the other user, and u1 still owns it.
C15_Witness ==
  \E id \in DOMAIN achievements :
    /\ achievements[id].ownerId = "u1"
    /\ achievements[id].verifiedById = "u2"
    /\ achievements[id].venue = "Mumbai"
    /\ achievements[id].verifiedAt > achievements[id].updatedAt

\* P holds of every report that is awaiting a query, and of every one that
\* may be awaiting its first.
ForReportSteps(P(_)) ==
  /\ \A r \in Waiting : r.op = "REPORT" => P(r)
  /\ \A u \in Callers : \A r \in ReportStartOutcome(u).awaits : P(r)

\* C12: a coach report answered 200 carries, for the T schedule requests under
\* the coach's schedules created in the last 30 days of which A are APPROVED,
\* a null attendanceRatePct exactly when T = 0 and otherwise 100 * A / T
\* rounded to the nearest integer, a half rounded up.
C12_AttendanceRateRounded ==
  [][\A r \in Waiting :
       (ReportStep(r) /\ r.at = "scheduleRequest.findMany distinct")
       => LET window == {q \in DOMAIN scheduleRequests :
                           /\ schedules[scheduleRequests[q].scheduleId].coachId = r.u
                           /\ r.today - scheduleRequests[q].createdAt <= ThirtyDays}
              T == Cardinality(window)
              A == Cardinality({q \in window : scheduleRequests[q].status = "APPROVED"})
              pct == resp'.body[1].attendanceRatePct
          IN /\ resp'.code = 200
             /\ IF T = 0 THEN pct = NoRate
                ELSE /\ pct # NoRate
                     /\ 2 * T * pct <= 200 * A + T
                     /\ 200 * A + T < 2 * T * (pct + 1)]_vars

\* C16: ListPendingForCoach and ComputeCoachKPIs answer 403 "Forbidden", and
\* touch nothing, exactly when the caller is not a user with role Coach and a
\* sport set (no such user, another role, or no sport), and answer 200 for
\* every Coach with a sport: past the coach test, each of their steps either
\* awaits the next query or answers 200.
C16_ReadsForbiddenUnlessCoach ==
  /\ \A u \in Callers :
       LET coachWithSport ==
             /\ u \in DOMAIN users
             /\ users[u].role = "Coach"
             /\ users[u].sport \in Sports
           Forbidden(o) ==
             /\ o.resp = Response(403, "Forbidden", NoBody)
             /\ o.store = achievements
             /\ o.awaits = {}
           Passed(o) ==
             /\ o.resp = NoResponse
             /\ o.store = achievements
             /\ o.awaits # {}
       IN /\ Forbidden(ListPendingStartOutcome(u)) <=> ~coachWithSport
          /\ Forbidden(ReportStartOutcome(u)) <=> ~coachWithSport
          /\ coachWithSport => /\ Passed(ListPendingStartOutcome(u))
                               /\ Passed(ReportStartOutcome(u))
  /\ ForPendingFinds(LAMBDA r :
       /\ ListPendingFindOutcomes(r) # {}
       /\ \A o \in ListPendingFindOutcomes(r) : o.resp.code = 200 /\ o.awaits = {})
  /\ ForReportSteps(LAMBDA r :
       LET o == ReportStepOutcome(r)
       IN IF r.at = "scheduleRequest.findMany distinct"
          THEN o.resp.code = 200 /\ o.awaits = {}
          ELSE o.resp = NoResponse /\ o.awaits # {})

\* C16 witness: a coach who has no sport yet has just been refused, with an
\* achievement stored.
C16_Witness ==
  /\ resp = Response(403, "Forbidden", NoBody)
  /\ users["u2"].role = "Coach" /\ users["u2"].sport = Null
  /\ users["u1"].role = "Player"
  /\ DOMAIN achievements # {}

\* A read's step leaves the achievement table and the user table as they were.
ReadLeavesStore(o) == o.store = achievements /\ o.users = users

\* C17: ComputeCoachKPIs, ListMine and ListPendingForCoach are read-only:
\* in every state reached between any lifecycle requests, each step of each of
\* them, for every caller and answered 200 or not, leaves the achievement
\* table as it was; and no step at all changes a user, a registration, a
\* schedule or a schedule request.
C17_ReadsChangeNothing ==
  /\ [](/\ \A u \in Callers :
             /\ ReadLeavesStore(ReportStartOutcome(u))
             /\ ReadLeavesStore(ListPendingStartOutcome(u))
             /\ \A o \in ListMineOutcomes(u) : ReadLeavesStore(o)
        /\ ForReportSteps(LAMBDA r : ReadLeavesStore(ReportStepOutcome(r)))
        /\ ForPendingFinds(LAMBDA r :
             \A o \in ListPendingFindOutcomes(r) : ReadLeavesStore(o)))
  /\ [][/\ users' = users
        /\ registrations' = registrations
        /\ schedules' = schedules
        /\ scheduleRequests' = scheduleRequests]_vars

\* C17 witness: a coach report has just been answered over stored
\* achievements, registrations, sessions and schedule requests.
C17_Witness ==
  /\ resp.code = 200
  /\ Len(resp.body) = 1
  /\ "attendanceRatePct" \in DOMAIN resp.body[1]
  /\ Cardinality(DOMAIN achievements) = 2
  /\ registrations # NoRows /\ schedules # NoRows /\ scheduleRequests # NoRows

\* C18: for a coach with sport S the report's achievementsApproved and
\* achievementsPending are the numbers of stored achievements with status
\* APPROVED and PENDING whose owner is a Player with sport S, whatever sport
\* the achievements themselves carry; 0 when there are none.  The numbers are
\* those of the table as achievement.groupBy finds it, and the report answers
\* them as found.
C18_CountsByOwnersSport ==
  ForReportSteps(LAMBDA r :
    /\ r.at = "achievement.groupBy"
       => LET players == {w \in DOMAIN users :
                            users[w].role = "Player" /\ users[w].sport = r.coach[1].sport}
              Stored(s) == {id \in DOMAIN achievements :
                              achievements[id].ownerId \in players
                              /\ achievements[id].status = s}
          IN /\ r.coach[1].role = "Coach" /\ r.coach[1].sport \in Sports
             /\ \A q \in ReportStepOutcome(r).awaits :
                  /\ q.achievementsApproved = Cardinality(Stored("APPROVED"))
                  /\ q.achievementsPending = Cardinality(Stored("PENDING"))
                  /\ players = {} => q.achievementsApproved = 0 /\ q.achievementsPending = 0
    /\ r.at = "scheduleRequest.findMany distinct"
       => LET kpis == ReportStepOutcome(r).resp.body[1]
          IN /\ kpis.achievementsApproved = r.achievementsApproved
             /\ kpis.achievementsPending = r.achievementsPending)

\* C18 witness: the cricket coach's report has just counted one pending
\* achievement out of the two that are stored: the cricket player's, which
\* carries the sport football; the one left out is the coach's own, a cricket
\* achievement.
C18_Witness ==
  /\ resp.code = 200
  /\ Len(resp.body) = 1
  /\ "achievementsPending" \in DOMAIN resp.body[1]
  /\ resp.body[1].achievementsPending = 1
  /\ resp.body[1].achievementsApproved = 0
  /\ users["u1"] = UserRow("u1", "Player", "cricket")
  /\ users["u2"] = UserRow("u2", "Coach", "cricket")
  /\ Waiting = {}
  /\ Cardinality(DOMAIN achievements) = 2
  /\ \A id \in DOMAIN achievements : achievements[id].status = "PENDING"
  /\ \E id \in DOMAIN achievements :
       achievements[id].ownerId = "u1" /\ achievements[id].sport = "football"
  /\ \E id \in DOMAIN achievements :
       achievements[id].ownerId = "u2" /\ achievements[id].sport = "cricket"

\* C19: ListMine answers 200 with exactly the stored achievements whose
\* ownerId is the caller, each once and as stored, none of another owner and
\* none of the caller's left out, none before one created later.
C19_MineListExact ==
  \A u \in DOMAIN users :
    /\ ListMineOutcomes(u) # {}
    /\ \A o \in ListMineOutcomes(u) :
         LET list == o.resp.body
         IN /\ o.resp.code = 200
            /\ {list[k].id : k \in DOMAIN list} =
                 {id \in DOMAIN achievements : achievements[id].ownerId = u}
            /\ \A j, k \in DOMAIN list :
                 /\ list[k].record = achievements[list[k].id]
                 /\ j < k => /\ list[j].id # list[k].id
                             /\ list[j].record.createdAt >= list[k].record.createdAt

\* C19 witness: the owner of two achievements has just listed them, the
\* second-created first.
C19_Witness ==
  /\ resp.code = 200
  /\ Len(resp.body) = 2
  /\ resp.body \in MyAchievements("u1")
  /\ resp.body[1].id = 2 /\ resp.body[2].id = 1
  /\ resp.body[1].record.createdAt > resp.body[2].record.createdAt

\* C20: whatever the interleaving of the reads and writes of a Delete and of a
\* Verify on the same achievement, no step removes a record whose stored
\* status is APPROVED.
C20_ApprovedNeverRemoved ==
  [][\A id \in DOMAIN achievements :
       achievements[id].status = "APPROVED" => id \in DOMAIN achievements']_vars

\* C21: whatever the interleaving of a Verify with an owner's Update that
\* changes the achievement's sport, a Verify write that is applied (answered
\* 200) finds the stored achievement carrying the acting coach's sport, so no
\* coach decides on a record of another sport.
C21_VerifyWriteSameSport ==
  [][\A r \in Waiting :
       (VerifyWrite(r) /\ resp'.code = 200)
       => achievements[r.id].sport = users[r.u].sport]_vars

\* C22: when coaches of the achievement's sport verify the same achievement
\* concurrently, each with a decision and a reason, every one of them passes
\* the tests, and every write answers 200 and leaves status, decisionReason,
\* verifiedById and verifiedByName all as that one verification gives them,
\* whatever an earlier write left there: the last write wins whole.
C22_LastVerifyWinsWhole ==
  /\ ForVerifyChecks(LAMBDA r :
       (r.u \in DOMAIN users /\ r.id \in DOMAIN achievements)
       => VerifyCheckOutcome(r).resp = NoResponse /\ VerifyCheckOutcome(r).awaits # {})
  /\ ForVerifyWrites(LAMBDA r :
       [decision |-> r.decision, reason |-> r.reason] \in Reasoned
       => LET o == VerifyWriteOutcome(r)
       IN /\ o.resp.code = 200
          /\ DOMAIN o.store = DOMAIN achievements
          /\ o.store[r.id].status = r.decision
          /\ o.store[r.id].decisionReason =
               (IF r.decision = "REJECTED" THEN r.reason ELSE Null)
          /\ o.store[r.id].verifiedById = r.u
          /\ o.store[r.id].verifiedByName = Username(r.u)
          /\ o.resp.body = Returned(r.id, o.store[r.id])
          /\ \A i \in DOMAIN achievements \ {r.id} : o.store[i] = achievements[i])

\* C22 witness: two cricket coaches verify the same achievement at once:
\* ravi's rejection has just been written and answered, while asha's approval
\* of the same record awaits its write.
C22_Witness ==
  /\ resp.code = 200
  /\ \E r \in Waiting :
       /\ r.op = "VERIFY" /\ r.at = "update" /\ r.u = "u1" /\ r.decision = "APPROVED"
       /\ Exists(r.id)
       /\ resp.body = Returned(r.id, achievements[r.id])
       /\ achievements[r.id].status = "REJECTED"
       /\ achievements[r.id].decisionReason = "Blurry proof"
       /\ achievements[r.id].verifiedById = "u2"
       /\ achievements[r.id].verifiedByName = "ravi"

\* C23: once a Delete has removed an achievement, no later state holds a
\* record with its id (an id handed out and no longer stored stays out of the
\* store); and the write of an Update or a Verify that read the record before
\* the delete answers 500 "Server error" and writes nothing.
C23_DeletedStaysDeleted ==
  /\ [](\A r \in Waiting :
          (/\ r.op = "UPDATE" \/ (r.op = "VERIFY" /\ r.at = "update")
           /\ ~Exists(r.id))
          => LET o == IF r.op = "UPDATE" THEN UpdateWriteOutcome(r)
                      ELSE VerifyWriteOutcome(r)
             IN /\ o.resp = Response(500, "Server error", NoBody)
                /\ o.store = achievements
                /\ o.awaits = {})
  /\ [][\A id \in 1..(nextId - 1) :
          id \notin DOMAIN achievements => id \notin DOMAIN achievements']_vars

\* C23 witness: the owner's delete has just been answered 204 while a
\* verification that read the record before awaits its write.
C23_Witness ==
  /\ resp = Response(204, "", NoBody)
  /\ \E r \in Waiting :
       r.op = "VERIFY" /\ r.at = "update" /\ r.id < nextId /\ ~Exists(r.id)

\* C24: in every state reached by registrations, profile updates, creates,
\* edits and verifications, no achievement has its owner as verifiedById: no
\* user approves or rejects their own achievement.
C24_NoSelfVerification ==
  \A id \in DOMAIN achievements :
    achievements[id].verifiedById # achievements[id].ownerId

\* C25: a Verify request from a caller who is not a Coach with a sport (a
\* player, a coach without a sport, a caller whose user row is gone) is
\* answered 403 "Forbidden: Not a coach", with nothing written and no update
\* issued, for an id that names a stored achievement as for one that names
\* none, whatever the body: the answer tells such a caller nothing about the
\* achievements.
C25_NonCoachLearnsNothing ==
  /\ ~Exists(nextId)
  /\ ForVerifyChecks(LAMBDA r :
       ~(r.coach # << >> /\ r.coach[1].role = "Coach" /\ r.coach[1].sport \in Sports)
       => \A id \in {r.id, nextId} :
            LET o == VerifyCheckOutcome([r EXCEPT !.id = id])
            IN /\ o = VerifyCheckOutcome([r EXCEPT !.id = nextId])
               /\ o.resp = Response(403, "Forbidden: Not a coach", NoBody)
               /\ o.store = achievements
               /\ o.awaits = {})

\* C25 witness: a verify has just been refused as not from a coach while no
\* user is a Coach with a sport and an achievement is stored.
C25_Witness ==
  /\ resp = Response(403, "Forbidden: Not a coach", NoBody)
  /\ \A u \in DOMAIN users : users[u].role # "Coach" \/ users[u].sport \notin Sports
  /\ DOMAIN achievements # {}
====
